---- MODULE Spec2Model ----
(***************************************************************************)
(* A model of the assistant bot (assistant_bot_hw_8.py): field value       *)
(* types, Record, AddressBook, persistence, the command functions and the  *)
(* command loop of main().                                                 *)
(*                                                                         *)
(* A Python str is modelled as a sequence of one-character strings, so     *)
(* that validation, parsing and formatting are computed character by       *)
(* character.  A Python object that may be None is modelled as a sequence  *)
(* of length 0 (None) or 1 (the object).                                   *)
(***************************************************************************)
EXTENDS Integers, Sequences, FiniteSets, TLC

VARIABLES pc, file, book, saves, last

vars == <<pc, file, book, saves, last>>

(***************************************************************************)
(* Characters and str methods                                              *)
(***************************************************************************)
DigitChars == <<"0", "1", "2", "3", "4", "5", "6", "7", "8", "9">>

AsciiDigits == {DigitChars[i] : i \in 1..10}

NonZeroDigits == AsciiDigits \ {"0"}

\* U+00B2 SUPERSCRIPT TWO: str.isdigit() is True for it, str.isdecimal() and
\* the regular expression class \d are False.
SuperscriptTwo == "^2"

\* str.isdigit(): every character is a digit (Numeric_Type Digit or Decimal)
\* and the string is not empty.
isdigit(s) ==
    /\ Len(s) > 0
    /\ \A i \in 1..Len(s) : s[i] \in AsciiDigits \cup {SuperscriptTwo}

\* int() of a string of ASCII digits, a leading blank ignored.
RECURSIVE IntOf(_)
IntOf(s) ==
    IF s = <<>> THEN 0
    ELSE IF s[Len(s)] = " " THEN 0
    ELSE 10 * IntOf(SubSeq(s, 1, Len(s) - 1))
         + (CHOOSE n \in 0..9 : DigitChars[n + 1] = s[Len(s)])

\* "%02d" and "%04d" of a non-negative integer.
Pad2(n) == <<DigitChars[((n \div 10) % 10) + 1], DigitChars[(n % 10) + 1]>>

Pad4(n) == Pad2(n \div 100) \o Pad2(n % 100)

(***************************************************************************)
(* datetime.date                                                           *)
(***************************************************************************)
IsLeap(y) == y % 4 = 0 /\ (y % 100 # 0 \/ y % 400 = 0)

DaysInMonthTable == <<31, 28, 31, 30, 31, 30, 31, 31, 30, 31, 30, 31>>

DaysInMonth(y, m) == IF m = 2 /\ IsLeap(y) THEN 29 ELSE DaysInMonthTable[m]

DaysBeforeMonthTable == <<0, 31, 59, 90, 120, 151, 181, 212, 243, 273, 304, 334>>

DaysBeforeMonth(y, m) ==
    DaysBeforeMonthTable[m] + (IF m > 2 /\ IsLeap(y) THEN 1 ELSE 0)

DaysBeforeYear(y) ==
    (y - 1) * 365 + ((y - 1) \div 4) - ((y - 1) \div 100) + ((y - 1) \div 400)

\* date(year, month, day) raises ValueError unless this holds.
DateOk(y, m, d) ==
    /\ y >= 1 /\ y <= 9999
    /\ m >= 1 /\ m <= 12
    /\ d >= 1 /\ d <= DaysInMonth(y, m)

Date(y, m, d) == [year |-> y, month |-> m, day |-> d]

\* date.toordinal()
ToOrdinal(dt) ==
    DaysBeforeYear(dt.year) + DaysBeforeMonth(dt.year, dt.month) + dt.day

\* The month that holds day r (counted from 0) of year y.
MonthOfDay(y, r) ==
    CHOOSE k \in 1..12 :
        DaysBeforeMonth(y, k) <= r /\ r < DaysBeforeMonth(y, k) + DaysInMonth(y, k)

\* The date of day r (counted from 0) of year y.
DayOfYear(y, r, m) == Date(y, m, r - DaysBeforeMonth(y, m) + 1)

\* The date after n400 cycles of 400 years, n100 centuries, n4 cycles of 4
\* years, n1 years and r days.
YmdOf(n400, n100, n4, n1, r, y) ==
    IF n1 = 4 \/ n100 = 4 THEN Date(y - 1, 12, 31)
    ELSE DayOfYear(y, r, MonthOfDay(y, r))

\* The remainders of day n0 (counted from 0) in its 400-year cycle, century
\* and 4-year cycle.
In400(n0) == n0 % 146097

In100(n0) == In400(n0) % 36524

In4(n0) == In100(n0) % 1461

\* date.fromordinal(n), the result of date + timedelta.
FromOrdinal(n) ==
    YmdOf((n - 1) \div 146097, In400(n - 1) \div 36524, In100(n - 1) \div 1461,
          In4(n - 1) \div 365, In4(n - 1) % 365,
          ((n - 1) \div 146097) * 400 + 1 + (In400(n - 1) \div 36524) * 100
              + (In100(n - 1) \div 1461) * 4 + (In4(n - 1) \div 365))

\* date.weekday(): 0 = Monday .. 6 = Sunday.
Weekday(dt) == (ToOrdinal(dt) + 6) % 7

\* date < date
DateLess(a, b) == ToOrdinal(a) < ToOrdinal(b)

\* date.strftime("%d.%m.%Y")
strftime(dt) == Pad2(dt.day) \o <<".">> \o Pad2(dt.month) \o <<".">> \o Pad4(dt.year)

\* Index of the first "." of s, 0 when there is none.
FirstDot(s) ==
    IF \E i \in 1..Len(s) : s[i] = "."
    THEN CHOOSE i \in 1..Len(s) : s[i] = "." /\ \A j \in 1..(i - 1) : s[j] # "."
    ELSE 0

\* The directive %d: 3[0-1] | [1-2]\d | 0[1-9] | [1-9] | " "[1-9]
DayDirective(p) ==
    \/ /\ Len(p) = 2
       /\ \/ p[1] = "3" /\ p[2] \in {"0", "1"}
          \/ p[1] \in {"1", "2"} /\ p[2] \in AsciiDigits
          \/ p[1] \in {"0", " "} /\ p[2] \in NonZeroDigits
    \/ Len(p) = 1 /\ p[1] \in NonZeroDigits

\* The directive %m: 1[0-2] | 0[1-9] | [1-9]
MonthDirective(p) ==
    \/ /\ Len(p) = 2
       /\ \/ p[1] = "1" /\ p[2] \in {"0", "1", "2"}
          \/ p[1] = "0" /\ p[2] \in NonZeroDigits
    \/ Len(p) = 1 /\ p[1] \in NonZeroDigits

\* The directive %Y: \d\d\d\d
YearDirective(p) == Len(p) = 4 /\ \A i \in 1..4 : p[i] \in AsciiDigits

\* What strptime yields where it raises ValueError.
NoMatch == [ok |-> FALSE, date |-> Date(0, 0, 0)]

\* The date of the numbers parsed, ValueError if there is no such date.
DateOfFields(y, m, d) ==
    IF DateOk(y, m, d) THEN [ok |-> TRUE, date |-> Date(y, m, d)] ELSE NoMatch

\* The three fields matched against their directives.
MatchFields(dd, mm, yy) ==
    IF DayDirective(dd) /\ MonthDirective(mm) /\ YearDirective(yy)
    THEN DateOfFields(IntOf(yy), IntOf(mm), IntOf(dd))
    ELSE NoMatch

\* The text after the day field, cut at its first "." (at position j).
MatchRest(dd, rest, j) ==
    IF j = 0 THEN NoMatch
    ELSE MatchFields(dd, SubSeq(rest, 1, j - 1), SubSeq(rest, j + 1, Len(rest)))

\* The value cut at its first "." (at position i).
MatchValue(value, i) ==
    IF i = 0 THEN NoMatch
    ELSE MatchRest(SubSeq(value, 1, i - 1), SubSeq(value, i + 1, Len(value)),
                   FirstDot(SubSeq(value, i + 1, Len(value))))

\* datetime.strptime(value, "%d.%m.%Y").date(): ok is FALSE where it raises
\* ValueError (no match, unconverted data, or no such calendar date).
strptime(value) == MatchValue(value, FirstDot(value))

(***************************************************************************)
(* Field value types and Record                                            *)
(***************************************************************************)
\* Phone.__init__ returns normally.
PhoneOk(value) == ~(~isdigit(value) \/ Len(value) # 10)

\* Birthday.__init__ returns normally.
BirthdayOk(value) == strptime(value).ok

\* Record.__init__
Record(name) == [name |-> name, phones |-> <<>>, birthday |-> <<>>]

\* The outcome of a method of Record: the exception it raises ("None" when it
\* returns), the exception's message, and the record as the call leaves it.
Outcome(exc, msg, rec) == [exc |-> exc, msg |-> msg, rec |-> rec]

\* Record.add_phone
add_phone(rec, phone) ==
    IF PhoneOk(phone)
    THEN Outcome("None", "", [rec EXCEPT !.phones = Append(@, phone)])
    ELSE Outcome("ValueError", "Phone number must contain exactly 10 digits.", rec)

\* find_phone returning the last match instead of the first.
find_phone_last(rec, phone) ==
    IF \E i \in 1..Len(rec.phones) : rec.phones[i] = phone
    THEN CHOOSE i \in 1..Len(rec.phones) :
             /\ rec.phones[i] = phone
             /\ \A j \in (i + 1)..Len(rec.phones) : rec.phones[j] # phone
    ELSE 0

\* Record.find_phone: the Phone objects of a record are distinct objects, so
\* the object found is identified by its position in the list; 0 is None.
find_phone(rec, phone) ==
    IF \E i \in 1..Len(rec.phones) : rec.phones[i] = phone
    THEN CHOOSE i \in 1..Len(rec.phones) :
             /\ rec.phones[i] = phone
             /\ \A j \in 1..(i - 1) : rec.phones[j] # phone
    ELSE 0

\* list.remove(obj) for the object at position i (Phone defines no __eq__,
\* so the comparison is by identity).
ListRemove(list, i) == SubSeq(list, 1, i - 1) \o SubSeq(list, i + 1, Len(list))

\* Record.remove_phone
remove_phone(rec, phone) ==
    LET phone_obj == find_phone(rec, phone)
    IN  IF phone_obj # 0
        THEN Outcome("None", "", [rec EXCEPT !.phones = ListRemove(@, phone_obj)])
        ELSE Outcome("ValueError", "Phone number not found.", rec)

\* Record.edit_phone
edit_phone(rec, old_phone, new_phone) ==
    LET old == find_phone(rec, old_phone)
    IN  IF old # 0
        THEN LET removed == remove_phone(rec, old_phone)
             IN  IF removed.exc # "None" THEN removed
                 ELSE add_phone(removed.rec, new_phone)
        ELSE Outcome("ValueError", "Old phone number not found.", rec)

\* Record.add_birthday
add_birthday(rec, bday) ==
    IF BirthdayOk(bday)
    THEN Outcome("None", "", [rec EXCEPT !.birthday = <<bday>>])
    ELSE Outcome("ValueError", "Invalid date format. Use DD.MM.YYYY", rec)

(***************************************************************************)
(* AddressBook: a dict in insertion order, a sequence of [key, rec]        *)
(***************************************************************************)
\* AddressBook()
EmptyBook == <<>>

Keys(b) == {b[i].key : i \in 1..Len(b)}

\* The position of a key, 0 when the key is absent.
KeyIndex(b, name) ==
    IF name \in Keys(b) THEN CHOOSE i \in 1..Len(b) : b[i].key = name ELSE 0

\* add_record keyed by the Name object instead of its value: no key is ever
\* found again, every call adds an entry.
add_record_by_object(b, rec) == Append(b, [key |-> rec.name, rec |-> rec])

\* AddressBook.add_record: dict assignment keeps the position of a key that
\* is already present and appends a new key.
add_record(b, rec) ==
    IF rec.name \in Keys(b)
    THEN [b EXCEPT ![KeyIndex(b, rec.name)] = [key |-> rec.name, rec |-> rec]]
    ELSE Append(b, [key |-> rec.name, rec |-> rec])

\* AddressBook.find: the record is referred to by its position, 0 is None.
find(b, name) == KeyIndex(b, name)

\* AddressBook.delete
delete(b, name) ==
    IF name \in Keys(b)
    THEN LET i == KeyIndex(b, name)
         IN  SubSeq(b, 1, i - 1) \o SubSeq(b, i + 1, Len(b))
    ELSE b

\* The weekend shift by 6 - weekday instead of 7 - weekday.
WeekendShiftShort(dt) ==
    IF Weekday(dt) >= 5
    THEN FromOrdinal(ToOrdinal(dt) + (6 - Weekday(dt)))
    ELSE dt

\* Lines 105-106: a date on Saturday or Sunday moves to the next Monday.
WeekendShift(dt) ==
    IF Weekday(dt) >= 5
    THEN FromOrdinal(ToOrdinal(dt) + (7 - Weekday(dt)))
    ELSE dt

\* date.replace(year=y): ok is FALSE where it raises ValueError.
ReplaceYear(dt, y) ==
    [ok |-> DateOk(y, dt.month, dt.day), date |-> Date(y, dt.month, dt.day)]

\* What one pass of the loop of get_upcoming_birthdays does: the exception
\* that escapes it ("None" when none does) and the entries it appends.
Pass(exc, entries) == [exc |-> exc, entries |-> entries]

\* Lines 103-107, for the occurrence bday_this_year.
Window(name, bday_this_year, days_diff) ==
    IF 0 <= days_diff /\ days_diff <= 7
    THEN Pass("None", <<<<name, strftime(WeekendShift(bday_this_year))>>>>)
    ELSE Pass("None", <<>>)

\* Lines 100-101: the occurrence of this year (this), rolled to next year
\* (next) if it is before today.
Occurrence(name, this, next, today) ==
    IF DateLess(this.date, today)
    THEN IF next.ok
         THEN Window(name, next.date, ToOrdinal(next.date) - ToOrdinal(today))
         ELSE Pass("ValueError", <<>>)
    ELSE Window(name, this.date, ToOrdinal(this.date) - ToOrdinal(today))

\* Lines 99-107, for the parsed birthday bday.
ThisYear(name, bday, this, today) ==
    IF this.ok
    THEN Occurrence(name, this, ReplaceYear(bday, today.year + 1), today)
    ELSE Pass("ValueError", <<>>)

\* Lines 94-107, for the outcome of strptime.
Parsed(name, parsed, today) ==
    IF parsed.ok
    THEN ThisYear(name, parsed.date, ReplaceYear(parsed.date, today.year), today)
    ELSE Pass("None", <<>>)

\* Lines 93-107: the loop body for one record.
UpcomingOf(rec, today) ==
    IF rec.birthday = <<>> THEN Pass("None", <<>>)
    ELSE Parsed(rec.name, strptime(rec.birthday[1]), today)

\* The list after the pass head, followed by the passes tail.
Passes(head, tail) ==
    IF head.exc # "None" THEN [exc |-> head.exc, upcoming |-> <<>>]
    ELSE IF tail.exc # "None" THEN tail
    ELSE [exc |-> "None", upcoming |-> head.entries \o tail.upcoming]

\* AddressBook.get_upcoming_birthdays with datetime.today().date() = today:
\* the list built, or the exception of the first record that raises.
RECURSIVE get_upcoming_birthdays(_, _)
get_upcoming_birthdays(b, today) ==
    IF b = <<>> THEN [exc |-> "None", upcoming |-> <<>>]
    ELSE Passes(UpcomingOf(b[1].rec, today), get_upcoming_birthdays(Tail(b), today))

(***************************************************************************)
(* Persistence                                                             *)
(***************************************************************************)
\* What addressbook.pkl holds: no file, zero bytes, a pickle that stops
\* between two opcodes, a pickle that stops inside an opcode, bytes that are
\* no pickle, or the pickle of a store.
FileKinds == {"absent", "empty", "cut", "truncated", "corrupt", "valid"}

FileOf(kind, store) == [kind |-> kind, store |-> store]

\* The exception open() or pickle.load() raises for a file, "None" if none.
PickleLoadExc(kind) ==
    CASE kind = "absent"    -> "FileNotFoundError"
      [] kind = "empty"     -> "EOFError"
      [] kind = "cut"       -> "EOFError"
      [] kind = "truncated" -> "UnpicklingError"
      [] kind = "corrupt"   -> "UnpicklingError"
      [] OTHER              -> "None"

\* load_data: the exception that escapes it and the store it returns.
load_data(f) ==
    LET e == PickleLoadExc(f.kind)
    IN  IF e = "None" THEN [exc |-> "None", book |-> f.store]
        ELSE IF e \in {"FileNotFoundError", "EOFError"}
        THEN [exc |-> "None", book |-> EmptyBook]
        ELSE [exc |-> e, book |-> EmptyBook]

\* save_data where the write succeeds, and where it fails part-way.
SaveOutcomes == {"None", "OSError"}

save_data(b, outcome) ==
    IF outcome = "None" THEN FileOf("valid", b) ELSE FileOf("truncated", EmptyBook)

(***************************************************************************)
(* Command functions                                                       *)
(***************************************************************************)
\* What a command function does: the exception that escapes it ("None" when
\* it returns), the string it returns as template text plus the interpolated
\* exception message, the list behind a birthdays answer, and the store as
\* the call leaves it.
Cmd(b, exc, text, msg, upcoming) ==
    [book |-> b, exc |-> exc, text |-> text, msg |-> msg, upcoming |-> upcoming]

\* The exceptions the decorator catches (line 135).
Caught == {"IndexError", "ValueError", "KeyError"}

\* input_error applied to the outcome of the wrapped function.
input_error(r) ==
    IF r.exc \in Caught THEN Cmd(r.book, "None", "Error: ", r.msg, <<>>) ELSE r

\* Unpacking that takes the first n of args and ignores the rest.
UnpackAtLeast(args, n) == IF Len(args) < n THEN "not enough values to unpack" ELSE ""

\* Tuple unpacking of args into n names: the ValueError message, "" if none.
Unpack(args, n) ==
    IF Len(args) < n THEN "not enough values to unpack"
    ELSE IF Len(args) > n THEN "too many values to unpack"
    ELSE ""

\* The outcome o of a method of the record at position record, as the
\* command function passes it on: the exception, or the text returned.
Passed(b, record, o, text) ==
    IF o.exc # "None"
    THEN Cmd([b EXCEPT ![record].rec = o.rec], o.exc, "", o.msg, <<>>)
    ELSE Cmd([b EXCEPT ![record].rec = o.rec], "None", text, "", <<>>)

\* Lines 144-147: the store after the record of name is fetched or created.
FetchOrCreate(b, name) ==
    IF find(b, name) = 0 THEN add_record(b, Record(name)) ELSE b

\* Lines 144-147: the position of the record fetched or created.
Fetched(b, name) == IF find(b, name) = 0 THEN Len(b) + 1 ELSE find(b, name)

\* Line 148, on the store b1 that holds the record at position record.
AddPhoneTo(b1, record, phone) ==
    Passed(b1, record, add_phone(b1[record].rec, phone), "Contact updated: ")

\* add_contact
add_contact(args, b) ==
    input_error(
        IF Unpack(args, 2) # "" THEN Cmd(b, "ValueError", "", Unpack(args, 2), <<>>)
        ELSE AddPhoneTo(FetchOrCreate(b, args[1]), Fetched(b, args[1]), args[2]))

\* change_contact
change_contact(args, b) ==
    input_error(
        IF Unpack(args, 3) # "" THEN Cmd(b, "ValueError", "", Unpack(args, 3), <<>>)
        ELSE IF find(b, args[1]) = 0 THEN Cmd(b, "None", "No contact with name", "", <<>>)
        ELSE Passed(b, find(b, args[1]),
                    edit_phone(b[find(b, args[1])].rec, args[2], args[3]),
                    "Phone updated for "))

\* show_phone
show_phone(args, b) ==
    input_error(
        IF Len(args) = 0 THEN Cmd(b, "IndexError", "", "list index out of range", <<>>)
        ELSE IF find(b, args[1]) = 0 THEN Cmd(b, "None", "No contact with name", "", <<>>)
        ELSE Cmd(b, "None", "'s phones: ", "", <<>>))

\* show_all
show_all(args, b) ==
    input_error(
        IF b # <<>> THEN Cmd(b, "None", "Contact name: ", "", <<>>)
        ELSE Cmd(b, "None", "Address book is empty.", "", <<>>))

\* add_birthday (the command function)
add_birthday_cmd(args, b) ==
    input_error(
        IF Unpack(args, 2) # "" THEN Cmd(b, "ValueError", "", Unpack(args, 2), <<>>)
        ELSE IF find(b, args[1]) = 0 THEN Cmd(b, "None", "No contact with name", "", <<>>)
        ELSE Passed(b, find(b, args[1]),
                    add_birthday(b[find(b, args[1])].rec, args[2]),
                    "Birthday added for "))

\* show_birthday (the command function)
show_birthday(args, b) ==
    input_error(
        IF Len(args) = 0 THEN Cmd(b, "IndexError", "", "list index out of range", <<>>)
        ELSE IF find(b, args[1]) = 0 THEN Cmd(b, "None", "No contact with name", "", <<>>)
        ELSE Cmd(b, "None", "'s birthday is ", "", <<>>))

\* Lines 193-195, for the outcome got of get_upcoming_birthdays.
Listed(b, got) ==
    IF got.exc # "None" THEN Cmd(b, got.exc, "", "day is out of range for month", <<>>)
    ELSE IF got.upcoming = <<>>
    THEN Cmd(b, "None", "No upcoming birthdays this week.", "", <<>>)
    ELSE Cmd(b, "None", "name: date", "", got.upcoming)

\* birthdays, run on the day today
birthdays(args, b, today) == input_error(Listed(b, get_upcoming_birthdays(b, today)))

(***************************************************************************)
(* parse_input and the dispatch of main()                                  *)
(***************************************************************************)
UpperLetters == <<"A", "B", "C", "D", "E", "F", "G", "H", "I", "J", "K", "L", "M",
                  "N", "O", "P", "Q", "R", "S", "T", "U", "V", "W", "X", "Y", "Z">>

LowerLetters == <<"a", "b", "c", "d", "e", "f", "g", "h", "i", "j", "k", "l", "m",
                  "n", "o", "p", "q", "r", "s", "t", "u", "v", "w", "x", "y", "z">>

\* str.lower()
lower(s) ==
    [i \in 1..Len(s) |->
        IF \E k \in 1..26 : UpperLetters[k] = s[i]
        THEN LowerLetters[CHOOSE k \in 1..26 : UpperLetters[k] = s[i]]
        ELSE s[i]]

VerbAdd == <<"a", "d", "d">>
VerbChange == <<"c", "h", "a", "n", "g", "e">>
VerbPhone == <<"p", "h", "o", "n", "e">>
VerbAddBirthday == <<"a", "d", "d", "-", "b", "i", "r", "t", "h", "d", "a", "y">>
VerbShowBirthday == <<"s", "h", "o", "w", "-", "b", "i", "r", "t", "h", "d", "a", "y">>
VerbBirthdays == <<"b", "i", "r", "t", "h", "d", "a", "y", "s">>
VerbShow == <<"s", "h", "o", "w">>
WordAll == <<"a", "l", "l">>
VerbExit == <<"e", "x", "i", "t">>
VerbClose == <<"c", "l", "o", "s", "e">>
VerbGoodbye == <<"g", "o", "o", "d", "b", "y", "e">>
VerbGood == <<"g", "o", "o", "d">>
VerbBye == <<"b", "y", "e">>

\* Line 234
TerminateVerbs == {VerbExit, VerbClose, VerbGoodbye, VerbGood, VerbBye}

\* parse_input of a line given as the list user_input.strip().split().
parse_input(parts) ==
    IF parts = <<>> THEN [command |-> <<>>, args |-> <<>>]
    ELSE [command |-> lower(parts[1]), args |-> Tail(parts)]

\* The if/elif chain of main() for a command that does not terminate: the
\* command function called.
Handler(command, args) ==
    IF command = VerbAdd THEN "add_contact"
    ELSE IF command = VerbChange THEN "change_contact"
    ELSE IF command = VerbPhone THEN "show_phone"
    ELSE IF command = VerbAddBirthday THEN "add_birthday"
    ELSE IF command = VerbShowBirthday THEN "show_birthday"
    ELSE IF command = VerbBirthdays THEN "birthdays"
    ELSE IF command = VerbShow /\ Len(args) = 1 /\ lower(args[1]) = WordAll THEN "show_all"
    ELSE "unknown"

\* The outcome of the command function handler.
Dispatch(handler, args, b, today) ==
    CASE handler = "add_contact"    -> add_contact(args, b)
      [] handler = "change_contact" -> change_contact(args, b)
      [] handler = "show_phone"     -> show_phone(args, b)
      [] handler = "add_birthday"   -> add_birthday_cmd(args, b)
      [] handler = "show_birthday"  -> show_birthday(args, b)
      [] handler = "birthdays"      -> birthdays(args, b, today)
      [] handler = "show_all"       -> show_all(args, b)
      [] OTHER -> Cmd(b, "None", "Unknown command. Try again.", "", <<>>)

(***************************************************************************)
(* Inputs                                                                  *)
(***************************************************************************)
\* The longest phone list the model lets a record grow to.
MaxPhones == 3

Within(b) == \A i \in 1..Len(b) : Len(b[i].rec.phones) <= MaxPhones

Rep(c, n) == [i \in 1..n |-> c]

Ann == <<"A", "n", "n">>
Bob == <<"B", "o", "b">>

Ones == Rep("1", 10)
Twos == Rep("2", 10)
ShortPhone == <<"1", "2", "3", "4", "5">>
AlphaPhone == <<"1", "2", "3", "4", "5", "6", "7", "8", "9", "a">>
SuperPhone == <<"1", "2", "3", "4", "5", "6", "7", "8", "9", SuperscriptTwo>>

Dotted(d, m, y) == d \o <<".">> \o m \o <<".">> \o y

Y1990 == <<"1", "9", "9", "0">>
Y2024 == <<"2", "0", "2", "4">>
Jun09 == Dotted(<<"0", "9">>, <<"0", "6">>, Y1990)
Jun12 == Dotted(<<"1", "2">>, <<"0", "6">>, Y1990)
Jun15 == Dotted(<<"1", "5">>, <<"0", "6">>, Y1990)
Jun16 == Dotted(<<"1", "6">>, <<"0", "6">>, Y1990)
Jun17 == Dotted(<<"1", "7">>, <<"0", "6">>, Y1990)
Jun18 == Dotted(<<"1", "8">>, <<"0", "6">>, Y1990)
Dec31 == Dotted(<<"3", "1">>, <<"1", "2">>, Y1990)
Jan01 == Dotted(<<"0", "1">>, <<"0", "1">>, Y1990)
Feb29 == Dotted(<<"2", "9">>, <<"0", "2">>, Y2024)
Feb30 == Dotted(<<"3", "0">>, <<"0", "2">>, Y2024)
Unpadded == Dotted(<<"1">>, <<"6">>, Y1990)
IsoDate == <<"1", "9", "9", "0", "-", "0", "6", "-", "1", "2">>

\* Days on which the birthdays command is run: Monday 10.06.2024, Saturday
\* 08.06.2024, Saturday 25.02.2023 (no leap year), Friday 30.12.2022 and
\* Monday 26.02.2024.
Todays ==
    {Date(2024, 6, 10), Date(2024, 6, 8), Date(2023, 2, 25), Date(2022, 12, 30),
     Date(2024, 2, 26)}

NoDate == Date(0, 0, 0)

(***************************************************************************)
(* State                                                                   *)
(***************************************************************************)
\* The record of the last step: the function that ran, the parsed command
\* and arguments, the day (for birthdays), the exception that escaped, and
\* the text printed or returned.
Step(op, command, args, today, r) ==
    [op |-> op, command |-> command, args |-> args, today |-> today,
     exc |-> r.exc, text |-> r.text, msg |-> r.msg, upcoming |-> r.upcoming]

Quiet(exc) == [exc |-> exc, text |-> "", msg |-> "", upcoming |-> <<>>]

NoStep == Step("none", <<>>, <<>>, NoDate, Quiet("None"))

\* Stores a previous session can have saved.
SavedStores ==
    {EmptyBook, <<[key |-> Ann, rec |-> [Record(Ann) EXCEPT !.phones = <<Ones>>]]>>}

Files ==
    {FileOf(k, EmptyBook) : k \in FileKinds \ {"valid"}}
        \cup {FileOf("valid", st) : st \in SavedStores}

(***************************************************************************)
(* main()                                                                  *)
(***************************************************************************)
Init ==
    /\ pc = "start"
    /\ file \in Files
    /\ book = EmptyBook
    /\ saves = 0
    /\ last = NoStep

\* Line 210: book = load_data(); an exception that escapes ends the process.
Load ==
    /\ pc = "start"
    /\ LET r == load_data(file)
       IN  /\ book' = r.book
           /\ pc' = IF r.exc = "None" THEN "loop" ELSE "crashed"
           /\ last' = Step("load_data", <<>>, <<>>, NoDate, Quiet(r.exc))
    /\ UNCHANGED <<file, saves>>

\* A call of a command function or library method with outcome r: the store
\* is as the call leaves it, and an exception that escapes ends the caller
\* (then, or after a normal return, the caller is at next).
Call(op, command, args, today, r, next) ==
    /\ Within(r.book)
    /\ book' = r.book
    /\ pc' = IF r.exc = "None" THEN next ELSE "crashed"
    /\ last' = Step(op, command, args, today, r)
    /\ UNCHANGED <<file, saves>>

\* Lines 234-237: save_data ends in outcome.
Terminate(command, args, outcome) ==
    /\ file' = save_data(book, outcome)
    /\ saves' = saves + 1
    /\ pc' = IF outcome = "None" THEN "done" ELSE "crashed"
    /\ last' = Step("save_data", command, args, NoDate,
                    IF outcome = "None"
                    THEN [Quiet("None") EXCEPT !.text = "Goodbye!"]
                    ELSE Quiet(outcome))
    /\ UNCHANGED book

\* Lines 218-239, for the parsed line: a terminate verb calls save_data,
\* which ends in one of SaveOutcomes; the birthdays command reads the clock,
\* which shows one of Todays.
Execute(command, args) ==
    IF command \in TerminateVerbs
    THEN \E outcome \in SaveOutcomes : Terminate(command, args, outcome)
    ELSE \E today \in IF command = VerbBirthdays THEN Todays ELSE {NoDate} :
             Call(Handler(command, args), command, args, today,
                  Dispatch(Handler(command, args), args, book, today), "loop")

\* Lines 213-239: one pass of the loop for the line whose words are parts.
ReadLine(parts) ==
    /\ pc = "loop"
    /\ IF parts = <<>>
       THEN /\ last' = Step("blank", <<>>, <<>>, NoDate, Quiet("None"))
            /\ UNCHANGED <<pc, file, book, saves>>
       ELSE Execute(parse_input(parts).command, parse_input(parts).args)

\* Line 214: input() at the end of the input raises EOFError, which nothing
\* in main() catches.
ReadEof ==
    /\ pc = "loop"
    /\ pc' = "crashed"
    /\ last' = Step("input", <<>>, <<>>, NoDate, Quiet("EOFError"))
    /\ UNCHANGED <<file, book, saves>>

CommandVerbs ==
    {VerbAdd, VerbChange, VerbPhone, VerbAddBirthday, VerbShowBirthday, VerbBirthdays}

ArgLists ==
    {<<>>, <<Ann>>, <<Ann, Ones>>, <<Ann, ShortPhone>>, <<Ann, Ones, Ones>>,
     <<Ann, Ones, ShortPhone>>, <<Ann, Jun12>>, <<Ann, Feb29>>,
     <<Ann, Ones, Ones, Ones>>}

Lines ==
    {<<v>> \o a : v \in CommandVerbs, a \in ArgLists}
        \cup {<<v>> : v \in TerminateVerbs}
        \cup {<<>>, <<<<"E", "x", "i", "t">>, Ann>>, <<<<"A", "D", "D">>, Ann, Ones>>,
              <<VerbShow, WordAll>>, <<VerbShow, <<"A", "l", "l">>>>, <<VerbShow>>,
              <<VerbShow, WordAll, Ann>>, <<<<"h", "e", "l", "l", "o">>>>}

Next ==
    \/ Load
    \/ \E parts \in Lines : ReadLine(parts)
    \/ ReadEof

Spec == Init /\ [][Next]_vars

(***************************************************************************)
(* The library used directly: command functions and methods called on a    *)
(* store that starts empty                                                 *)
(***************************************************************************)
LibInit ==
    /\ pc = "lib"
    /\ file = FileOf("absent", EmptyBook)
    /\ book = EmptyBook
    /\ saves = 0
    /\ last = NoStep

\* A call with outcome r by a caller that goes on whatever the outcome.
LibCall(op, args, today, r) ==
    /\ pc = "lib"
    /\ Within(r.book)
    /\ book' = r.book
    /\ last' = Step(op, <<>>, args, today, r)
    /\ UNCHANGED <<pc, file, saves>>

CallAddContact(args) == LibCall("add_contact", args, NoDate, add_contact(args, book))

CallChangeContact(args) ==
    LibCall("change_contact", args, NoDate, change_contact(args, book))

CallAddBirthday(args) ==
    LibCall("add_birthday", args, NoDate, add_birthday_cmd(args, book))

CallBirthdays(today) == LibCall("birthdays", <<>>, today, birthdays(<<>>, book, today))

\* book.add_record(Record(name))
CallAddRecord(name) ==
    LibCall("add_record", <<name>>, NoDate,
            Cmd(add_record(book, Record(name)), "None", "", "", <<>>))

\* book.delete(name)
CallDelete(name) ==
    LibCall("delete", <<name>>, NoDate, Cmd(delete(book, name), "None", "", "", <<>>))

\* book.find(name).remove_phone(raw)
CallRemovePhone(name, raw) ==
    /\ find(book, name) # 0
    /\ LibCall("remove_phone", <<name, raw>>, NoDate,
               Passed(book, find(book, name),
                      remove_phone(book[find(book, name)].rec, raw), ""))

Names == {Ann, Bob}

\* Phones of one record: add, change and remove_phone.
RecordNext ==
    \/ \E name \in Names, phone \in {Ones, Twos, ShortPhone} :
           CallAddContact(<<name, phone>>)
    \/ \E name \in Names, old \in {Ones, Twos}, new \in {Ones, Twos, ShortPhone} :
           CallChangeContact(<<name, old, new>>)
    \/ \E name \in Names, raw \in {Ones, Twos} : CallRemovePhone(name, raw)

RecordSpec == LibInit /\ [][RecordNext]_vars

\* The store under add, change, add-birthday, add_record and delete.
StoreNext ==
    \/ \E name \in Names, phone \in {Ones, SuperPhone, AlphaPhone} :
           CallAddContact(<<name, phone>>)
    \/ \E name \in Names, new \in {SuperPhone, ShortPhone} :
           CallChangeContact(<<name, Ones, new>>)
    \/ \E name \in Names, bday \in {Unpadded, IsoDate} : CallAddBirthday(<<name, bday>>)
    \/ \E name \in Names : CallAddRecord(name)
    \/ \E name \in Names : CallDelete(name)

StoreSpec == LibInit /\ [][StoreNext]_vars

BirthdayInputs ==
    {Jun09, Jun12, Jun15, Jun16, Jun17, Jun18, Dec31, Jan01, Feb29, Feb30, Unpadded}

\* Birthdays set on records and the birthdays query on several days.
BirthdayNext ==
    \/ \E name \in Names : CallAddRecord(name)
    \/ \E name \in Names, bday \in BirthdayInputs : CallAddBirthday(<<name, bday>>)
    \/ \E today \in Todays : CallBirthdays(today)

BirthdaySpec == LibInit /\ [][BirthdayNext]_vars

(***************************************************************************)
(* Properties                                                              *)
(***************************************************************************)
\* A string of exactly 10 decimal digits.
TenDigits(x) == Len(x) = 10 /\ \A i \in 1..10 : x[i] \in AsciiDigits

\* A calendar date written DD.MM.YYYY.
CalendarDate(x) ==
    /\ Len(x) = 10
    /\ x[3] = "." /\ x[6] = "."
    /\ \A i \in {1, 2, 4, 5, 7, 8, 9, 10} : x[i] \in AsciiDigits
    /\ DateOk(IntOf(SubSeq(x, 7, 10)), IntOf(SubSeq(x, 4, 5)), IntOf(SubSeq(x, 1, 2)))

\* The number of times x occurs in the list.
Count(x, list) == Cardinality({i \in 1..Len(list) : list[i] = x})

\* The list without its element at position i.
Without(list, i) == [k \in 1..(Len(list) - 1) |-> IF k < i THEN list[k] ELSE list[k + 1]]

\* The phones of the record of name in the store b.
PhonesOf(b, name) == b[CHOOSE i \in 1..Len(b) : b[i].key = name].rec.phones

\* C1: editPhone(old, new) with old in the record's phone list and new no
\* valid 10-digit phone signals InvalidFormat and leaves the phone list as it
\* was.
C1_InvalidNewLeavesPhones ==
    [][(/\ last'.op = "change_contact"
        /\ Len(last'.args) = 3
        /\ last'.args[1] \in Keys(book)
        /\ Count(last'.args[2], PhonesOf(book, last'.args[1])) > 0
        /\ ~TenDigits(last'.args[3]))
       => /\ last'.text = "Error: "
          /\ last'.msg = "Phone number must contain exactly 10 digits."
          /\ last'.args[1] \in Keys(book')
          /\ PhonesOf(book', last'.args[1]) = PhonesOf(book, last'.args[1])]_vars

\* C8: removePhone(raw) on a list holding raw k >= 1 times removes exactly
\* the first occurrence (raw occurs k-1 times, the list is one shorter, the
\* other phones keep their order); with k = 0 it signals NotFound and the
\* list is unchanged.
C8_RemoveFirstOccurrence ==
    [][last'.op = "remove_phone"
       => LET name   == last'.args[1]
              raw    == last'.args[2]
              before == PhonesOf(book, name)
              after  == PhonesOf(book', name)
          IN  IF Count(raw, before) >= 1
              THEN /\ last'.exc = "None"
                   /\ Count(raw, after) = Count(raw, before) - 1
                   /\ Len(after) = Len(before) - 1
                   /\ \E i \in 1..Len(before) :
                          /\ before[i] = raw
                          /\ \A j \in 1..(i - 1) : before[j] # raw
                          /\ after = Without(before, i)
              ELSE /\ last'.exc = "ValueError"
                   /\ last'.msg = "Phone number not found."
                   /\ after = before]_vars

\* remove_phone has just removed one of several occurrences of a phone that
\* stood before and after another phone.
C8_Witness ==
    /\ last.op = "remove_phone"
    /\ last.exc = "None"
    /\ Count(last.args[2], PhonesOf(book, last.args[1])) >= 1
    /\ Len(PhonesOf(book, last.args[1])) >= 2
    /\ PhonesOf(book, last.args[1])[1] # last.args[2]

\* C9: add NAME PHONE with an invalid PHONE returns an "Error: ..." string
\* and leaves the store unchanged.
C9_InvalidAddLeavesStore ==
    [][(/\ last'.op = "add_contact"
        /\ Len(last'.args) = 2
        /\ ~TenDigits(last'.args[2]))
       => /\ last'.text = "Error: "
          /\ book' = book]_vars

\* C7: every key of the store maps to a record whose embedded name is that
\* key, and keys are unique.
C7_KeysMatchNames ==
    /\ \A i \in 1..Len(book) : book[i].key = book[i].rec.name
    /\ \A i, j \in 1..Len(book) : book[i].key = book[j].key => i = j

\* add_record has just replaced the record of a key that has phones no
\* more, in a store of two records.
C7_Witness ==
    /\ last.op = "add_record"
    /\ Len(book) = 2
    /\ book[1].key = last.args[1]
    /\ book[1].rec.phones = <<>>
    /\ book[2].rec.phones # <<>>

\* C10: every phone held by a record is a string of exactly 10 decimal
\* digits, and every birthday held is a valid DD.MM.YYYY calendar date.
C10_FieldsValid ==
    \A i \in 1..Len(book) :
        /\ \A j \in 1..Len(book[i].rec.phones) : TenDigits(book[i].rec.phones[j])
        /\ book[i].rec.birthday # <<>> => CalendarDate(book[i].rec.birthday[1])

\* The record of name in the store b.
RecordOf(b, name) == b[CHOOSE i \in 1..Len(b) : b[i].key = name].rec

\* The birthday of a record as a date.
BirthDate(rec) == strptime(rec.birthday[1]).date

\* The day d days after today.
DayAfter(today, d) == FromOrdinal(ToOrdinal(today) + d)

\* The birthday of the record falls on today or on one of the 7 days after.
InWindow(rec, today) ==
    /\ rec.birthday # <<>>
    /\ \E d \in 0..7 :
           /\ DayAfter(today, d).month = BirthDate(rec).month
           /\ DayAfter(today, d).day = BirthDate(rec).day

\* The names of the records of b that are in the window, in store order.
RECURSIVE NamesInWindow(_, _)
NamesInWindow(b, today) ==
    IF b = <<>> THEN <<>>
    ELSE (IF InWindow(b[1].rec, today) THEN <<b[1].key>> ELSE <<>>)
             \o NamesInWindow(Tail(b), today)

\* C2: upcomingBirthdays returns, in store insertion order, exactly one entry
\* for each record whose birthday's next occurrence is 0 to 7 days after
\* today and no entry for any other record, for every valid stored birthday,
\* 29.02 included.
C2_ExactlyTheWindow ==
    last.op = "birthdays"
        => /\ last.text # "Error: "
           /\ [k \in 1..Len(last.upcoming) |-> last.upcoming[k][1]]
                  = NamesInWindow(book, last.today)

\* The next occurrence of the birthday of a record on or after today: same
\* day and month in today's year, or in the year after if that is before
\* today.
NextOccurrence(rec, today) ==
    IF ToOrdinal(Date(today.year, BirthDate(rec).month, BirthDate(rec).day))
           < ToOrdinal(today)
    THEN Date(today.year + 1, BirthDate(rec).month, BirthDate(rec).day)
    ELSE Date(today.year, BirthDate(rec).month, BirthDate(rec).day)

\* The next occurrence behind entry k of the last birthdays answer.
OccurrenceOfEntry(k) == NextOccurrence(RecordOf(book, last.upcoming[k][1]), last.today)

\* The date reported by entry k of the last birthdays answer.
ReportedByEntry(k) == strptime(last.upcoming[k][2]).date

\* C3: the date reported by an entry of upcomingBirthdays is never a Saturday
\* or Sunday: it is the occurrence plus 2 days if that is a Saturday, plus 1
\* day if a Sunday, else the occurrence itself; the occurrence is 0 to 7 days
\* after today, so the reported date is at most 9 days after today.
C3_ReportedOnWeekday ==
    last.op = "birthdays"
        => \A k \in 1..Len(last.upcoming) :
               /\ strptime(last.upcoming[k][2]).ok
               /\ Weekday(ReportedByEntry(k)) \notin {5, 6}
               /\ ToOrdinal(ReportedByEntry(k)) - ToOrdinal(OccurrenceOfEntry(k))
                      = (CASE Weekday(OccurrenceOfEntry(k)) = 5 -> 2
                           [] Weekday(OccurrenceOfEntry(k)) = 6 -> 1
                           [] OTHER -> 0)
               /\ ToOrdinal(OccurrenceOfEntry(k)) - ToOrdinal(last.today) \in 0..7
               /\ ToOrdinal(ReportedByEntry(k)) - ToOrdinal(last.today) <= 9

\* A birthdays answer with an occurrence on a Saturday 7 days after today
\* reported 9 days after today, and with another on a Sunday.
C3_Witness ==
    /\ last.op = "birthdays"
    /\ \E k \in 1..Len(last.upcoming) :
           /\ Weekday(OccurrenceOfEntry(k)) = 5
           /\ ToOrdinal(ReportedByEntry(k)) - ToOrdinal(last.today) = 9
    /\ \E k \in 1..Len(last.upcoming) : Weekday(OccurrenceOfEntry(k)) = 6

\* The command functions of the verbs add, change, phone, add-birthday,
\* show-birthday and birthdays, and the number of arguments of each verb.
ArityOf(op) ==
    CASE op = "add_contact"    -> 2
      [] op = "change_contact" -> 3
      [] op = "show_phone"     -> 1
      [] op = "add_birthday"   -> 2
      [] op = "show_birthday"  -> 1
      [] op = "birthdays"      -> 0

CommandOps ==
    {"add_contact", "change_contact", "show_phone", "add_birthday", "show_birthday",
     "birthdays"}

\* The messages of the exceptions raised for a wrong number of arguments.
ArityMessages ==
    {"not enough values to unpack", "too many values to unpack",
     "list index out of range"}

\* C4 (as claimed): a command whose argument list is shorter or longer than
\* the arity of its verb fails with an arity error rendered as "Error: ..."
\* and performs no store operation.
C4_ExactArity ==
    [][(last'.op \in CommandOps /\ Len(last'.args) # ArityOf(last'.op))
       => /\ last'.text = "Error: "
          /\ last'.msg \in ArityMessages
          /\ book' = book]_vars

\* C4 (amended): add, change and add-birthday fail so for every argument list
\* shorter or longer than their arity; phone and show-birthday fail so only
\* for the empty list and with more arguments answer for the first one;
\* birthdays never fails so; in each of these cases the store is unchanged.
C4_ArityAsUnpacked ==
    [][last'.op \in CommandOps
       => /\ (/\ last'.op \in {"add_contact", "change_contact", "add_birthday"}
              /\ Len(last'.args) # ArityOf(last'.op))
             => /\ last'.text = "Error: "
                /\ last'.msg = (IF Len(last'.args) < ArityOf(last'.op)
                                THEN "not enough values to unpack"
                                ELSE "too many values to unpack")
                /\ book' = book
          /\ (last'.op \in {"show_phone", "show_birthday"} /\ Len(last'.args) = 0)
             => /\ last'.text = "Error: "
                /\ last'.msg = "list index out of range"
                /\ book' = book
          /\ (last'.op \in {"show_phone", "show_birthday"} /\ Len(last'.args) > 1)
             => /\ last'.text = (IF last'.args[1] \notin Keys(book)
                                 THEN "No contact with name"
                                 ELSE IF last'.op = "show_phone" THEN "'s phones: "
                                 ELSE "'s birthday is ")
                /\ book' = book
          /\ (last'.op = "birthdays" /\ Len(last'.args) > 0)
             => /\ last'.msg \notin ArityMessages
                /\ book' = book]_vars

\* add with three arguments has just failed on a store that holds a record.
C4_Witness ==
    /\ last.op = "add_contact"
    /\ Len(last.args) = 3
    /\ last.text = "Error: "
    /\ last.msg = "too many values to unpack"
    /\ book # <<>>

\* C5: load() never raises to its caller: for every state of the persistence
\* file it returns a store, and an empty store where no valid prior state can
\* be read.
C5_LoadNeverRaises ==
    last.op = "load_data"
        => /\ last.exc = "None"
           /\ pc = "loop"
           /\ file.kind # "valid" => book = EmptyBook

\* C6: after a successful load the command loop ends only in response to a
\* terminate verb, with save invoked exactly once, before the end; every
\* other line that carries a verb yields a text response and leaves the loop
\* running with no save.
C6_EndsOnlyOnTerminateVerb ==
    [][pc = "loop"
       => /\ pc' # "loop"
             => /\ last'.op = "save_data"
                /\ last'.command \in TerminateVerbs
          /\ last'.op = "save_data" => saves = 0 /\ saves' = 1
          /\ last'.op \notin {"save_data", "blank"}
             => /\ last'.text # ""
                /\ pc' = "loop"
                /\ saves' = saves]_vars

====
